---- MODULE Spec2Model ----
(***************************************************************************)
(* The request-time pipeline of the RAG demo server: the POST /ask handler *)
(* with its vagueness guard, synonym expansion, distance gate, context     *)
(* assembly, refusal normalisation and citation resolution.                *)
(*                                                                         *)
(* Strings are sequences of one-character strings.  Distances are in       *)
(* hundredths (0.55 is 55).  The embedding/vector index and the chat model *)
(* are external: what they return (or that they throw) is an input.        *)
(***************************************************************************)
EXTENDS Integers, Sequences, FiniteSets, TLC

VARIABLES
    store,        \* the shared vector index built by bootstrapStore()
    pc,           \* per request: "idle", "awaitIndex", "awaitLLM", "done"
    reqBody,      \* per request: req.body as it arrived
    question,     \* per request: const question (trimmed)
    guardCalls,   \* per request: number of calls of isVagueQuestion
    returned,     \* per request: what similaritySearchWithScore resolved to
    thrown,       \* per request: the await that rejected, "none" if none did
    pairs,        \* per request: const pairs, after pairs.sort
    results,      \* per request: const results (docs of the context)
    completion,   \* per request: what llm.invoke resolved to (response.content)
    answer,       \* per request: let answer
    indexCalls,   \* per request: calls of store.similaritySearchWithScore
    llmCalls,     \* per request: calls of llm.invoke
    sent,         \* per request: responses written to res
    fn            \* a call of one of the pure helpers: its argument and results

vars == <<store, pc, reqBody, question, guardCalls, returned, thrown, pairs, results,
          completion, answer, indexCalls, llmCalls, sent, fn>>

-----------------------------------------------------------------------------
(* Characters and the String methods the handler uses *)

UPPER == <<"A","B","C","D","E","F","G","H","I","J","K","L","M","N","O","P","Q","R","S","T","U","V","W","X","Y","Z">>
LOWER == <<"a","b","c","d","e","f","g","h","i","j","k","l","m","n","o","p","q","r","s","t","u","v","w","x","y","z">>
DIGITS == <<"0","1","2","3","4","5","6","7","8","9">>

Range(s) == { s[i] : i \in 1..Len(s) }

IndexIn(c, s) == CHOOSE i \in 1..Len(s) : s[i] = c

\* String.prototype.toLowerCase on one character
LowerChar(c) == IF c \in Range(UPPER) THEN LOWER[IndexIn(c, UPPER)] ELSE c

toLowerCase(s) == [i \in 1..Len(s) |-> LowerChar(s[i])]

\* white space as String.prototype.trim and the regex class \s see it
IsSpace(c) == c \in {" ", "\t", "\n", "\r"}

\* the regex class \w
IsWordChar(c) == c \in Range(UPPER) \cup Range(LOWER) \cup Range(DIGITS) \cup {"_"}

IsDigit(c) == c \in Range(DIGITS)

trim(s) ==
    LET keep == { i \in 1..Len(s) : ~IsSpace(s[i]) }
    IN  IF keep = {} THEN <<>>
        ELSE LET lo == CHOOSE i \in keep : \A j \in keep : i <= j
                 hi == CHOOSE i \in keep : \A j \in keep : j <= i
             IN  SubSeq(s, lo, hi)

startsWith(s, p) == Len(s) >= Len(p) /\ SubSeq(s, 1, Len(p)) = p

\* s.replace(/^typo/, canon) for a string that starts with typo
ReplacePrefix(s, typo, canon) == canon \o SubSeq(s, Len(typo) + 1, Len(s))

\* (variant: the pattern without its \b anchors)
WordAt_NoBoundary(s, w, i) ==
    /\ i + Len(w) - 1 <= Len(s)
    /\ SubSeq(s, i, i + Len(w) - 1) = w

\* the literal w occurs in s at position i between two \b word boundaries
\* (every w used below starts and ends with a word character)
WordAt(s, w, i) ==
    /\ i + Len(w) - 1 <= Len(s)
    /\ SubSeq(s, i, i + Len(w) - 1) = w
    /\ (i = 1 \/ ~IsWordChar(s[i - 1]))
    /\ (i + Len(w) - 1 = Len(s) \/ ~IsWordChar(s[i + Len(w)]))

\* /\b(w1|w2|...)\b/.test(s)
TestWords(s, ws) == \E w \in ws : \E i \in 1..Len(s) : WordAt(s, w, i)

-----------------------------------------------------------------------------
(* Heuristics: vagueness and synonym expansion *)

STOPWORDS ==
    { <<"t","h","e">>, <<"a","n","d">>, <<"f","o","r">>, <<"w","i","t","h">>,
      <<"y","o","u">>, <<"y","o","u","r">>, <<"a","r","e">>, <<"b","u","t">>,
      <<"n","o","t">>, <<"f","r","o","m">>, <<"t","h","i","s">>, <<"t","h","a","t">>,
      <<"i","t">>, <<"h","e","r","e">>, <<"t","h","e","r","e">>, <<"w","h","a","t">>,
      <<"i","s">>, <<"a","b","o","u","t">>, <<"p","l","e","a","s","e">>, <<"t","e","l","l">>,
      <<"m","e">>, <<"a">>, <<"a","n">>, <<"o","f">>,
      <<"t","o">>, <<"i","n">>, <<"o","n">>, <<"a","t">>,
      <<"b","y">>, <<"b","e">>, <<"w","e">>, <<"t","h","e","y">>,
      <<"i">> }

\* the class [a-z0-9] that tokenizeMeaningful keeps
ALNUM_LOWER == Range(LOWER) \cup Range(DIGITS)

\* the characters of the class \w
WORD_CHARS == Range(UPPER) \cup Range(LOWER) \cup Range(DIGITS) \cup {"_"}

\* the maximal runs of characters of the class cs in s
MaxRuns(s, cs) ==
    { SubSeq(s, ij[1], ij[2]) :
        ij \in { x \in (1..Len(s)) \X (1..Len(s)) :
                   /\ x[1] <= x[2]
                   /\ \A k \in x[1]..x[2] : s[k] \in cs
                   /\ (x[1] = 1 \/ s[x[1] - 1] \notin cs)
                   /\ (x[2] = Len(s) \/ s[x[2] + 1] \notin cs) } }

\* tokenizeMeaningful: lower-case, blank everything outside [a-z0-9\s], split
\* on white space, keep words longer than 2 that are no stop words; as the
\* set its callers make of it
tokenizeMeaningful(text) ==
    { w \in MaxRuns(toLowerCase(text), ALNUM_LOWER) : Len(w) > 2 /\ w \notin STOPWORDS }

MIN_QUESTION_LENGTH == 8

DEICTIC ==
    { <<"t","h","i","s">>, <<"t","h","a","t">>, <<"i","t">>, <<"h","e","r","e">>,
      <<"t","h","e","r","e">>, <<"t","h","i","s"," ","o","n","e">> }

\* (variant: the length test left out)
isVagueQuestion_DeicticOnly(q) == TestWords(toLowerCase(trim(q)), DEICTIC)

isVagueQuestion(q) ==
    LET trimmed == trim(q)
    IN  IF Len(trimmed) < MIN_QUESTION_LENGTH THEN TRUE
        ELSE TestWords(toLowerCase(trimmed), DEICTIC)

\* the trigger table of expandQuestionSynonyms, in source order
TRIGGERS ==
    << [words |-> { <<"s","a","t">>, <<"s","a","t","u","r","d","a","y">> },
        terms |-> <<" ","s","a","t","u","r","d","a","y"," ","w","e","e","k","e","n","d">>],
       [words |-> { <<"s","u","n">>, <<"s","u","n","d","a","y">> },
        terms |-> <<" ","s","u","n","d","a","y"," ","w","e","e","k","e","n","d">>],
       [words |-> { <<"w","e","e","k","e","n","d">>, <<"w","e","e","k","e","n","d","s">> },
        terms |-> <<" ","s","a","t","u","r","d","a","y"," ","s","u","n","d","a","y">>],
       [words |-> { <<"c","a","r">>, <<"c","a","r","s">>, <<"v","e","h","i","c","l","e">>,
                    <<"v","e","h","i","c","l","e","s">>, <<"d","r","i","v","e">> },
        terms |-> <<" ","p","a","r","k","i","n","g"," ","l","o","t">>],
       [words |-> { <<"o","p","e","n">>, <<"h","o","u","r","s">>, <<"o","p","e","n","i","n","g">>,
                    <<"c","l","o","s","e">>, <<"c","l","o","s","i","n","g">> },
        terms |-> <<" ","h","o","u","r","s"," ","o","p","e","n"," ","o","p","e","n","i","n","g"," ","t","i","m","e","s">>] >>

\* the triggers that match are tested on the lower-cased ORIGINAL text
TriggerFires(q, t) == TestWords(toLowerCase(q), TRIGGERS[t].words)

\* (variant: out = terms where the code has out += terms)
RECURSIVE ExpandFrom_Assign(_, _, _)
ExpandFrom_Assign(q, out, t) ==
    IF t > Len(TRIGGERS) THEN out
    ELSE ExpandFrom_Assign(q, IF TriggerFires(q, t) THEN TRIGGERS[t].terms ELSE out, t + 1)

\* (variant: each pattern is tested on the text built so far)
RECURSIVE ExpandFrom_TestsOut(_, _, _)
ExpandFrom_TestsOut(q, out, t) ==
    IF t > Len(TRIGGERS) THEN out
    ELSE ExpandFrom_TestsOut(q, IF TriggerFires(out, t) THEN out \o TRIGGERS[t].terms ELSE out,
                             t + 1)

RECURSIVE ExpandFrom(_, _, _)
ExpandFrom(q, out, t) ==
    IF t > Len(TRIGGERS) THEN out
    ELSE ExpandFrom(q, IF TriggerFires(q, t) THEN out \o TRIGGERS[t].terms ELSE out, t + 1)

expandQuestionSynonyms(q) == ExpandFrom(q, q, 1)

-----------------------------------------------------------------------------
(* Retrieval: defensive sort, distance gate, evidence selection *)

K == 3

COSINE_DISTANCE_MAX == 55

\* a pair is <<doc, distance>>, as similaritySearchWithScore returns it
Insert(sorted, p) ==
    LET after == { i \in 1..Len(sorted) : sorted[i][2] <= p[2] }
        n == Cardinality(after)
    IN  SubSeq(sorted, 1, n) \o <<p>> \o SubSeq(sorted, n + 1, Len(sorted))

\* (variant: the order of the index is trusted)
SortPairs_Trusting(ps) == ps

\* pairs.sort((a, b) => a[1] - b[1]): ascending by distance, stable
RECURSIVE SortPairs(_)
SortPairs(ps) ==
    IF ps = <<>> THEN <<>>
    ELSE Insert(SortPairs(SubSeq(ps, 1, Len(ps) - 1)), ps[Len(ps)])

\* (variant: only the !bestDoc test)
GateRefuses_NoDistance(sorted) == sorted = <<>>

\* !bestDoc || bestDistance > COSINE_DISTANCE_MAX, on the sorted pairs
GateRefuses(sorted) == sorted = <<>> \/ sorted[1][2] > COSINE_DISTANCE_MAX

\* (variant: the filter keeps every pair)
WithinThreshold_Any(p) == TRUE

WithinThreshold(p) == p[2] <= COSINE_DISTANCE_MAX

\* filter, slice(0, K), map to docs, and the best-doc fallback
BuildResults(sorted) ==
    LET kept == SelectSeq(sorted, WithinThreshold)
        top == SubSeq(kept, 1, IF Len(kept) < K THEN Len(kept) ELSE K)
        docs == [i \in 1..Len(top) |-> top[i][1]]
    IN  IF Len(docs) = 0 /\ Len(sorted) > 0 THEN <<sorted[1][1]>> ELSE docs

\* doc.metadata?.source || "unknown"
SourceOf(doc) == IF doc.source = "" THEN "unknown" ELSE doc.source

\* the numbered context blocks "[i] (src)\n pageContent"
Numbered(docs) ==
    [i \in 1..Len(docs) |->
        [label |-> i, src |-> SourceOf(docs[i]), pageContent |-> docs[i].pageContent]]

\* the messages handed to llm.invoke
Prompt(q, docs) == [system |-> "buildSystemPrompt", question |-> q, numbered |-> Numbered(docs)]

-----------------------------------------------------------------------------
(* Answer post-processing and citation resolution *)

REFUSAL_PHRASE == <<"I"," ","d","o","n","'","t"," ","k","n","o","w">>

REFUSAL_TYPO == <<"I"," ","d","o","n","'","t"," ","n","o","w">>

\* (variant: the answer is passed on as it came)
NormalizeTypo_None(a) == a

\* normalize the "I don't now" typo
NormalizeTypo(a) ==
    IF startsWith(a, REFUSAL_TYPO) THEN ReplacePrefix(a, REFUSAL_TYPO, REFUSAL_PHRASE) ELSE a

DigitValue(c) == IndexIn(c, DIGITS) - 1

\* Number("ddd") of a non-empty run of decimal digits
RECURSIVE NumberOf(_)
NumberOf(ds) ==
    IF ds = <<>> THEN 0
    ELSE 10 * NumberOf(SubSeq(ds, 1, Len(ds) - 1)) + DigitValue(ds[Len(ds)])

\* the end of the match of /\[(\d+)\]/ that starts at i, or 0 when none does
MatchEnd(a, i) ==
    IF a[i] # "[" THEN 0
    ELSE LET stops == { j \in (i + 1)..Len(a) : ~IsDigit(a[j]) }
         IN  IF stops = {} THEN 0
             ELSE LET j == CHOOSE x \in stops : \A y \in stops : x <= y
                  IN  IF j > i + 1 /\ a[j] = "]" THEN j ELSE 0

\* new Set(answer.match(/\[(\d+)\]/g).map(Number)); runs of digits long enough
\* to give Infinity are outside the answers considered
CitedIdx(a) ==
    { NumberOf(SubSeq(a, i + 1, MatchEnd(a, i) - 1)) :
        i \in { x \in 1..Len(a) : MatchEnd(a, x) # 0 } }

AllSources(docs) == [i \in 1..Len(docs) |-> [id |-> i, source |-> SourceOf(docs[i])]]

\* (variant: cited numbers mapped to sources without the 1..N test)
Base_NoRangeCheck(a, docs) ==
    LET cited == CitedIdx(a)
        Nth(n) == CHOOSE c \in cited : Cardinality({ d \in cited : d < c }) = n - 1
        Entry(c) == [id |-> c,
                     source |-> IF c \in 1..Len(docs) THEN SourceOf(docs[c]) ELSE "unknown"]
    IN  IF cited = {} THEN AllSources(docs)
        ELSE [n \in 1..Cardinality(cited) |-> Entry(Nth(n))]

\* (variant: no fall back to allSources)
Base_FailClosed(a, docs) ==
    LET cited == CitedIdx(a)
        IsCited(s) == s.id \in cited
    IN  SelectSeq(AllSources(docs), IsCited)

\* citedOnly.length > 0 ? citedOnly : allSources
Base(a, docs) ==
    LET all == AllSources(docs)
        cited == CitedIdx(a)
        IsCited(s) == s.id \in cited
        citedOnly == SelectSeq(all, IsCited)
    IN  IF Len(citedOnly) > 0 THEN citedOnly ELSE all

\* (variant: the last entry of each filename is the one kept)
Dedup_KeepLast(base) ==
    LET Last(i) == \A j \in (i + 1)..Len(base) : base[j].source # base[i].source
        keep == { i \in 1..Len(base) : Last(i) }
        Nth(n) == CHOOSE i \in keep : Cardinality({ j \in keep : j < i }) = n - 1
    IN  [n \in 1..Cardinality(keep) |-> base[Nth(n)]]

\* base.filter with the seen set: the first entry of each filename
Dedup(base) ==
    LET First(i) == \A j \in 1..(i - 1) : base[j].source # base[i].source
        keep == { i \in 1..Len(base) : First(i) }
        Nth(n) == CHOOSE i \in keep : Cardinality({ j \in keep : j < i }) = n - 1
    IN  [n \in 1..Cardinality(keep) |-> base[Nth(n)]]

\* (variant: only the bare phrase with its full stop counts as a refusal)
IsRefusal_Exact(a) == a = REFUSAL_PHRASE \o <<".">>

IsRefusal(a) == startsWith(a, REFUSAL_PHRASE)

SourcesToShow(a, docs) == IF IsRefusal(a) THEN <<>> ELSE Dedup(Base(a, docs))

-----------------------------------------------------------------------------
(* Responses *)

CLARIFY_ANSWER == <<"C","o","u","l","d"," ","y","o","u"," ","c","l","a","r","i","f","y"," ","y","o","u","r"," ","q","u","e","s","t","i","o","n","?"," ","F","o","r"," ","e","x","a","m","p","l","e",":"," ","\"","W","h","a","t"," ","a","r","e"," ","y","o","u","r"," ","h","o","u","r","s","?","\""," ","o","r"," ","\"","I","s"," ","o","u","t","s","i","d","e"," ","f","o","o","d"," ","a","l","l","o","w","e","d","?","\"">>

REFUSE_ANSWER == <<"I"," ","d","o","n","'","t"," ","k","n","o","w"," ","b","a","s","e","d"," ","o","n"," ","t","h","e"," ","p","r","o","v","i","d","e","d"," ","d","o","c","u","m","e","n","t","s",".">>

BadRequest == [status |-> 400, body |-> [error |-> "Missing question"]]

\* (variant: the exception's message is put in the body)
ServerError_Leaks == [status |-> 500, body |-> [error |-> "Server error", detail |-> "err.message"]]

ServerError == [status |-> 500, body |-> [error |-> "Server error"]]

Ok(a, srcs) == [status |-> 200, body |-> [answer |-> a, sources |-> srcs]]

ClarifyResponse == Ok(CLARIFY_ANSWER, <<>>)

RefuseResponse == Ok(REFUSE_ANSWER, <<>>)

-----------------------------------------------------------------------------
(* Inputs: the snapshot, request bodies, and what the collaborators return *)

Snapshot ==
    << [pageContent |-> "faq-1", source |-> "faqs.txt"],
       [pageContent |-> "faq-2", source |-> "faqs.txt"],
       [pageContent |-> "hours-1", source |-> "hours.txt"],
       [pageContent |-> "loose-1", source |-> ""] >>

Questions ==
  { <<>>,
    <<" "," "," ">>,
    <<"h","i">>,
    <<" "," ","h","i"," "," "," "," "," "," "," ">>,
    <<"h","o","u","r","s","?">>,
    <<"p","a","r","k","i","n","g">>,
    <<"I","s"," ","i","t"," ","o","p","e","n"," ","o","n"," ","S","a","t","?">>,
    <<"o","p","e","n"," ","s","a","t">>,
    <<"W","h","a","t"," ","t","i","m","e"," ","d","o"," ","y","o","u"," ","o","p","e","n"," ","o","n"," ","S","a","t","u","r","d","a","y","s","?">>,
    <<" "," ","C","a","n"," ","I"," ","b","r","i","n","g"," ","m","y"," ","c","a","r"," ","t","h","i","s"," ","w","e","e","k","e","n","d","?"," ">>,
    <<"W","h","a","t"," ","i","s"," ","t","h","e"," ","c","a","p","i","t","a","l"," ","o","f"," ","F","r","a","n","c","e","?">> }

\* req.body: with a question, or without one
Bodies == { [hasQuestion |-> FALSE, question |-> <<>>] }
            \cup { [hasQuestion |-> TRUE, question |-> q] : q \in Questions }

\* scores are numbers, in hundredths, on both sides of the threshold
Distances == {20, 55, 56, 81}

Injective(s) == \A i, j \in 1..Len(s) : i # j => s[i] # s[j]

\* up to k distinct chunks of the index, in any order, at any distances
IndexResults(index, k) ==
    UNION { { [i \in 1..n |-> <<index[cs[i]], ds[i]>>] :
                cs \in { c \in [1..n -> 1..Len(index)] : Injective(c) },
                ds \in [1..n -> Distances] } : n \in 0..k }

Answers ==
  { <<>>,
    <<"I"," ","d","o","n","'","t"," ","k","n","o","w",".">>,
    <<"I"," ","d","o","n","'","t"," ","n","o","w","."," ","[","1","]">>,
    <<"I"," ","d","o","n","'","t"," ","k","n","o","w"," ","[","1","]">>,
    <<" "," ","I"," ","d","o","n","'","t"," ","k","n","o","w","\n">>,
    <<"i"," ","d","o","n","'","t"," ","k","n","o","w">>,
    <<"O","p","e","n"," ","9","-","5"," ","[","1","]">>,
    <<"S","e","e"," ","[","1","]"," ","a","n","d"," ","[","3","]">>,
    <<"[","2","]"," ","t","h","e","n"," ","[","1","]">>,
    <<"[","0","]"," ","[","4","]">>,
    <<"N","o"," ","c","i","t","e","s">>,
    <<"[","0","1","]","[","2">>,
    <<"[","3","]","[","2","]","[","2","]">>,
    <<"[","1","2","]"," ","["," ","1"," ","]">>,
    <<"I"," ","d","o","n","t"," ","k","n","o","w"," ","[","1","]">>,
    <<"I"," ","d","o","n","'","t"," ","k","o","n","w",".">> }

\* response.content: a string, undefined, or a non-string (content parts)
Contents == { [type |-> "string", value |-> a] : a \in Answers }
              \cup { [type |-> "undefined", value |-> <<>>],
                     [type |-> "parts", value |-> <<>>] }

-----------------------------------------------------------------------------
(* The POST /ask handler, one action per stretch between two awaits *)

\* llm.invoke has not resolved
NoContent == [type |-> "pending", value |-> <<>>]

InitFor(reqs) ==
    /\ store = Snapshot
    /\ pc = [r \in reqs |-> "idle"]
    /\ reqBody = [r \in reqs |-> [hasQuestion |-> FALSE, question |-> <<>>]]
    /\ question = [r \in reqs |-> <<>>]
    /\ guardCalls = [r \in reqs |-> 0]
    /\ returned = [r \in reqs |-> <<>>]
    /\ thrown = [r \in reqs |-> "none"]
    /\ pairs = [r \in reqs |-> <<>>]
    /\ results = [r \in reqs |-> <<>>]
    /\ completion = [r \in reqs |-> NoContent]
    /\ answer = [r \in reqs |-> <<>>]
    /\ indexCalls = [r \in reqs |-> <<>>]
    /\ llmCalls = [r \in reqs |-> <<>>]
    /\ sent = [r \in reqs |-> <<>>]

\* no helper is being exercised on its own
NoCall == [stage |-> "none", q |-> <<>>, expanded |-> <<>>, vague |-> FALSE]

\* one handler invocation
Single == {1}

Init == InitFor(Single) /\ fn = NoCall

\* (variant: the response object is shared by the requests in flight)
Respond_Crosstalk(r, response) ==
    LET hit == { x \in DOMAIN pc : x = r \/ pc[x] \in {"awaitIndex", "awaitLLM"} }
    IN  /\ sent' = [x \in DOMAIN pc |-> IF x \in hit THEN Append(sent[x], response) ELSE sent[x]]
        /\ pc' = [x \in DOMAIN pc |-> IF x \in hit THEN "done" ELSE pc[x]]

Respond(r, response) ==
    /\ sent' = [sent EXCEPT ![r] = Append(@, response)]
    /\ pc' = [pc EXCEPT ![r] = "done"]

\* (variant: the question is not trimmed)
QuestionOf_NoTrim(body) == IF body.hasQuestion THEN body.question ELSE <<>>

\* String(req.body?.question || "").trim()
QuestionOf(body) == IF body.hasQuestion THEN trim(body.question) ELSE <<>>

\* (variant: the index query is issued before the vague guard is consulted)
Ask_QueryBeforeGuard(r, bodies) ==
    /\ pc[r] = "idle"
    /\ \E body \in bodies :
       LET q == QuestionOf(body)
           call == [query |-> expandQuestionSynonyms(q), k |-> K]
       IN  /\ reqBody' = [reqBody EXCEPT ![r] = body]
           /\ question' = [question EXCEPT ![r] = q]
           /\ IF q = <<>> THEN
                  /\ Respond(r, BadRequest)
                  /\ UNCHANGED <<guardCalls, indexCalls>>
              ELSE
                  /\ guardCalls' = [guardCalls EXCEPT ![r] = @ + 1]
                  /\ indexCalls' = [indexCalls EXCEPT ![r] = Append(@, call)]
                  /\ IF isVagueQuestion(q) THEN Respond(r, ClarifyResponse)
                     ELSE /\ pc' = [pc EXCEPT ![r] = "awaitIndex"]
                          /\ UNCHANGED sent
    /\ UNCHANGED <<store, fn, returned, thrown, pairs, results, completion, answer, llmCalls>>

\* lines 196-215: validation, vague guard, expansion, the index query is issued
Ask(r, bodies) ==
    /\ pc[r] = "idle"
    /\ \E body \in bodies :
       LET q == QuestionOf(body)
       IN  /\ reqBody' = [reqBody EXCEPT ![r] = body]
           /\ question' = [question EXCEPT ![r] = q]
           /\ IF q = <<>> THEN
                  /\ Respond(r, BadRequest)
                  /\ UNCHANGED <<guardCalls, indexCalls>>
              ELSE IF isVagueQuestion(q) THEN
                  /\ guardCalls' = [guardCalls EXCEPT ![r] = @ + 1]
                  /\ Respond(r, ClarifyResponse)
                  /\ UNCHANGED indexCalls
              ELSE
                  /\ guardCalls' = [guardCalls EXCEPT ![r] = @ + 1]
                  /\ indexCalls' = [indexCalls EXCEPT ![r] =
                                      Append(@, [query |-> expandQuestionSynonyms(q), k |-> K])]
                  /\ pc' = [pc EXCEPT ![r] = "awaitIndex"]
                  /\ UNCHANGED sent
    /\ UNCHANGED <<store, fn, returned, thrown, pairs, results, completion, answer, llmCalls>>

\* lines 215-272: the query resolved; sort, gate, context, llm.invoke is issued
IndexReturns(r, raws) ==
    /\ pc[r] = "awaitIndex"
    /\ \E raw \in raws :
       LET sorted == SortPairs(raw)
       IN  /\ returned' = [returned EXCEPT ![r] = raw]
           /\ pairs' = [pairs EXCEPT ![r] = sorted]
           /\ IF GateRefuses(sorted) THEN
                  /\ Respond(r, RefuseResponse)
                  /\ UNCHANGED <<results, llmCalls>>
              ELSE
                  /\ results' = [results EXCEPT ![r] = BuildResults(sorted)]
                  /\ llmCalls' = [llmCalls EXCEPT ![r] =
                                    Append(@, Prompt(question[r], BuildResults(sorted)))]
                  /\ pc' = [pc EXCEPT ![r] = "awaitLLM"]
                  /\ UNCHANGED sent
    /\ UNCHANGED <<store, fn, reqBody, question, guardCalls, thrown, completion, answer,
                   indexCalls>>

\* (variant: a rejected query is issued again)
IndexThrows_Retry(r) ==
    /\ pc[r] = "awaitIndex"
    /\ Len(indexCalls[r]) < 3
    /\ indexCalls' = [indexCalls EXCEPT ![r] = Append(@, @[1])]
    /\ UNCHANGED <<store, fn, pc, sent, reqBody, question, guardCalls, returned, thrown, pairs,
                   results, completion, answer, llmCalls>>

\* lines 321-325: the query rejected; the catch block answers
IndexThrows(r) ==
    /\ pc[r] = "awaitIndex"
    /\ thrown' = [thrown EXCEPT ![r] = "index"]
    /\ Respond(r, ServerError)
    /\ UNCHANGED <<store, fn, reqBody, question, guardCalls, returned, pairs, results,
                   completion, answer, indexCalls, llmCalls>>

\* lines 269-320: the completion resolved; normalise, resolve citations, answer
LLMReturns(r, contents) ==
    /\ pc[r] = "awaitLLM"
    /\ \E content \in contents :
       /\ completion' = [completion EXCEPT ![r] = content]
       /\ IF content.type = "parts" THEN
           \* (response.content || "").trim is not a function: caught at 321
           /\ thrown' = [thrown EXCEPT ![r] = "trim"]
           /\ Respond(r, ServerError)
           /\ UNCHANGED answer
         ELSE
           LET a == NormalizeTypo(trim(content.value))
           IN  /\ answer' = [answer EXCEPT ![r] = a]
               /\ Respond(r, Ok(a, SourcesToShow(a, results[r])))
               /\ UNCHANGED thrown
    /\ UNCHANGED <<store, fn, reqBody, question, guardCalls, returned, pairs, results,
                   indexCalls, llmCalls>>

\* lines 321-325: the completion rejected; the catch block answers
LLMThrows(r) ==
    /\ pc[r] = "awaitLLM"
    /\ thrown' = [thrown EXCEPT ![r] = "llm"]
    /\ Respond(r, ServerError)
    /\ UNCHANGED <<store, fn, reqBody, question, guardCalls, returned, pairs, results,
                   completion, answer, indexCalls, llmCalls>>

Next ==
    \/ \E r \in Single : Ask(r, Bodies)
    \/ \E r \in Single : IndexReturns(r, IndexResults(store, K))
    \/ \E r \in Single : IndexThrows(r)
    \/ \E r \in Single : LLMReturns(r, Contents)
    \/ \E r \in Single : LLMThrows(r)

Spec == Init /\ [][Next]_vars

\* the results in which the index finds its second and third chunk only
NearResults(index) == IndexResults(SubSeq(index, 2, 3), K)

NextLive ==
    \/ \E r \in Single : Ask(r, Bodies)
    \/ \E r \in Single : IndexReturns(r, NearResults(store))
    \/ \E r \in Single : IndexThrows(r)
    \/ \E r \in Single : LLMReturns(r, Contents)
    \/ \E r \in Single : LLMThrows(r)

\* every collaborator call that was issued resolves or rejects
CallsSettle ==
    \A r \in Single :
        /\ WF_vars(IndexReturns(r, NearResults(store)) \/ IndexThrows(r))
        /\ WF_vars(LLMReturns(r, Contents) \/ LLMThrows(r))

SpecLive == Init /\ [][NextLive]_vars /\ CallsSettle

-----------------------------------------------------------------------------
(* The helpers on their own: isVagueQuestion and expandQuestionSynonyms are  *)
(* applied to texts put together from a few pieces                           *)

MaxPieces == 3

Pieces ==
    { <<" ">>, <<"?">>, <<"s">>, <<"i","t">>, <<"s","a","t">>, <<"S","u","n">>, <<"c","a","r">>, <<"o","p","e","n">>, <<"t","h","e","r","e">>, <<"w","e","e","k","e","n","d">> }

RECURSIVE Texts(_)
Texts(n) ==
    IF n = 0 THEN { <<>> }
    ELSE LET shorter == Texts(n - 1)
         IN  shorter \cup { t \o p : t \in shorter, p \in Pieces }

InitText ==
    /\ InitFor(Single)
    /\ fn \in { [stage |-> "arg", q |-> t, expanded |-> <<>>, vague |-> FALSE] :
                  t \in Texts(MaxPieces) }

handlerVars == <<store, pc, reqBody, question, guardCalls, returned, thrown, pairs, results,
                 completion, answer, indexCalls, llmCalls, sent>>

\* isVagueQuestion(q) is called
CallGuard ==
    /\ fn.stage = "arg"
    /\ fn' = [fn EXCEPT !.stage = "guarded", !.vague = isVagueQuestion(fn.q)]
    /\ UNCHANGED handlerVars

\* expandQuestionSynonyms(q) is called
CallExpand ==
    /\ fn.stage = "arg"
    /\ fn' = [fn EXCEPT !.stage = "expanded", !.expanded = expandQuestionSynonyms(fn.q)]
    /\ UNCHANGED handlerVars

NextText == CallGuard \/ CallExpand

SpecText == InitText /\ [][NextText]_vars

-----------------------------------------------------------------------------
(* Several requests in flight at once: every await is a point where the     *)
(* handlers of other requests run                                            *)

NumReqs == 2

Concurrent == 1..NumReqs

ConcBodies ==
    { [hasQuestion |-> FALSE, question |-> <<>>],
      [hasQuestion |-> TRUE, question |-> <<"h","i">>],
      [hasQuestion |-> TRUE, question |-> <<"o","p","e","n"," ","s","a","t">>] }

ConcResults(index) ==
    { <<>>,
      << <<index[1], 20>> >>,
      << <<index[3], 81>> >>,
      << <<index[3], 56>>, <<index[1], 55>> >> }

ConcContents ==
    { [type |-> "string", value |-> <<"O","p","e","n"," ","9","-","5"," ","[","1","]">>],
      [type |-> "string", value |-> <<"I"," ","d","o","n","'","t"," ","k","n","o","w",".">>],
      [type |-> "parts", value |-> <<>>] }

InitConc == InitFor(Concurrent) /\ fn = NoCall

NextConc ==
    \/ \E r \in Concurrent : Ask(r, ConcBodies)
    \/ \E r \in Concurrent : IndexReturns(r, ConcResults(store))
    \/ \E r \in Concurrent : IndexThrows(r)
    \/ \E r \in Concurrent : LLMReturns(r, ConcContents)
    \/ \E r \in Concurrent : LLMThrows(r)

SpecConc == InitConc /\ [][NextConc]_vars

-----------------------------------------------------------------------------
(* Properties of the handler *)

Requests == DOMAIN pc

\* the one response of a finished request
Response(r) == sent[r][1]

IsOk(r) == pc[r] = "done" /\ Len(sent[r]) = 1 /\ Response(r).status = 200

\* the request got as far as llm.invoke and answered from what it returned
IsAnswered(r) == IsOk(r) /\ Len(llmCalls[r]) = 1 /\ thrown[r] = "none"

\* the evidence blocks rendered into the prompt of the request
Blocks(r) == llmCalls[r][1].numbered

Sources(r) == Response(r).body.sources

SourceNames(srcs) == { srcs[i].source : i \in 1..Len(srcs) }

SourceIds(srcs) == { srcs[i].id : i \in 1..Len(srcs) }

AllBeyond(ps) == ps # <<>> /\ \A i \in 1..Len(ps) : ps[i][2] > COSINE_DISTANCE_MAX

\* C1: when the nearest chunk the index returned is farther than Dmax, the
\* request is answered with the fixed refusal and no sources, and llm.invoke
\* is never called for it.
C1_FarRefused ==
    \A r \in Requests :
        AllBeyond(returned[r]) =>
            /\ pc[r] = "done"
            /\ sent[r] = <<[status |-> 200, body |-> [answer |-> REFUSE_ANSWER, sources |-> <<>>]]>>
            /\ llmCalls[r] = <<>>

C1_Witness ==
    \E r \in Requests :
        /\ AllBeyond(returned[r]) /\ Len(returned[r]) = K
        /\ pairs[r][1][2] = 56
        /\ pc[r] = "done"

\* C2: every block rendered into the prompt, and every source returned, is a
\* chunk the index returned at a distance <= Dmax, in whatever order and with
\* whatever farther chunks it came.
C2_EvidenceWithinDmax ==
    \A r \in Requests :
        /\ \A c \in 1..Len(llmCalls[r]) : \A b \in 1..Len(llmCalls[r][c].numbered) :
              \E i \in 1..Len(returned[r]) :
                  /\ returned[r][i][1].pageContent = llmCalls[r][c].numbered[b].pageContent
                  /\ returned[r][i][2] <= COSINE_DISTANCE_MAX
        /\ IsOk(r) =>
              \A s \in 1..Len(Sources(r)) :
                  /\ Len(llmCalls[r]) = 1
                  /\ Sources(r)[s].id \in 1..Len(Blocks(r))
                  /\ Blocks(r)[Sources(r)[s].id].src = Sources(r)[s].source

C2_Witness ==
    \E r \in Requests :
        /\ IsAnswered(r)
        /\ Sources(r) # <<>>
        /\ returned[r][1][2] > COSINE_DISTANCE_MAX
        /\ \E i \in 1..Len(returned[r]) : returned[r][i][2] <= COSINE_DISTANCE_MAX

HasText(r) == pc[r] # "idle" /\ reqBody[r].hasQuestion

Blank(s) == \A i \in 1..Len(s) : IsSpace(s[i])

\* C3 as stated: every question shorter than 8 characters ends in Clarify.
C3_ShortAlwaysClarify ==
    \A r \in Requests :
        (HasText(r) /\ Len(reqBody[r].question) < 8) =>
            sent[r] = <<[status |-> 200, body |-> [answer |-> CLARIFY_ANSWER, sources |-> <<>>]]>>

\* C3 (amended): every question shorter than 8 characters that is not empty
\* or white space only ends in Clarify, whatever the index holds.
C3_ShortNonBlankClarify ==
    \A r \in Requests :
        (HasText(r) /\ Len(reqBody[r].question) < 8 /\ ~Blank(reqBody[r].question)) =>
            /\ pc[r] = "done"
            /\ sent[r] = <<[status |-> 200, body |-> [answer |-> CLARIFY_ANSWER, sources |-> <<>>]]>>

C3_Witness ==
    \E r \in Requests :
        /\ HasText(r)
        /\ Len(reqBody[r].question) = 6
        /\ sent[r] # <<>> /\ Response(r).status = 200

\* C4: a 200 response whose answer starts with "I don't know" has no sources,
\* whether the gate or the model produced the text, citations or not.
C4_RefusalNoSources ==
    \A r \in Requests :
        (IsOk(r) /\ startsWith(Response(r).body.answer, REFUSAL_PHRASE)) => Sources(r) = <<>>

C4_Witness ==
    \E r \in Requests :
        /\ IsAnswered(r)
        /\ startsWith(answer[r], REFUSAL_PHRASE)
        /\ 1 \in CitedIdx(answer[r])
        /\ Len(results[r]) >= 1

\* C5: every id in the returned sources is in 1..N; with N = 2 and an answer
\* citing [1] and [3], the sources are block 1's source alone.
C5_IdsInRange ==
    \A r \in Requests :
        IsOk(r) =>
            /\ \A s \in 1..Len(Sources(r)) :
                  Len(llmCalls[r]) = 1 /\ Sources(r)[s].id \in 1..Len(Blocks(r))
            /\ (IsAnswered(r) /\ Len(Blocks(r)) = 2 /\ CitedIdx(Response(r).body.answer) = {1, 3}) =>
                  Sources(r) = <<[id |-> 1, source |-> Blocks(r)[1].src]>>

C5_Witness ==
    \E r \in Requests :
        /\ IsAnswered(r)
        /\ Len(Blocks(r)) = 2
        /\ CitedIdx(answer[r]) = {1, 3}
        /\ Len(Sources(r)) = 1

\* the blocks the sources are drawn from: the validly cited ones, all if none
Candidates(r) ==
    LET valid == CitedIdx(Response(r).body.answer) \cap (1..Len(Blocks(r)))
    IN  IF valid = {} THEN 1..Len(Blocks(r)) ELSE valid

\* C6: no filename occurs twice in the sources; each filename among the blocks
\* the sources are drawn from has exactly one entry, the one of lowest
\* citation index, and the entries are in order of first occurrence.
C6_DedupByFilename ==
    \A r \in Requests :
        IsOk(r) =>
            /\ \A i, j \in 1..Len(Sources(r)) :
                  i < j => /\ Sources(r)[i].source # Sources(r)[j].source
                           /\ Sources(r)[i].id < Sources(r)[j].id
            /\ (IsAnswered(r) /\ ~startsWith(Response(r).body.answer, REFUSAL_PHRASE)) =>
                  \A c \in Candidates(r) :
                      \E s \in 1..Len(Sources(r)) :
                          /\ Sources(r)[s].source = Blocks(r)[c].src
                          /\ Sources(r)[s].id \in Candidates(r)
                          /\ Sources(r)[s].id <= c
                          /\ Blocks(r)[Sources(r)[s].id].src = Blocks(r)[c].src

C6_Witness ==
    \E r \in Requests :
        /\ IsAnswered(r)
        /\ Len(Blocks(r)) = 3
        /\ Blocks(r)[2].src = Blocks(r)[3].src
        /\ Blocks(r)[1].src # Blocks(r)[2].src
        /\ {2, 3} \subseteq CitedIdx(answer[r])
        /\ SourceIds(Sources(r)) = {2}

\* C7: a non-refusal answer with no valid citation exposes the sources of all
\* N blocks (once per filename); with a valid citation, only cited blocks.
C7_FailOpen ==
    \A r \in Requests :
        (IsAnswered(r) /\ ~startsWith(Response(r).body.answer, REFUSAL_PHRASE)) =>
            LET N == Len(Blocks(r))
                valid == CitedIdx(Response(r).body.answer) \cap (1..N)
            IN  IF valid = {}
                THEN SourceNames(Sources(r)) = { Blocks(r)[i].src : i \in 1..N }
                ELSE /\ SourceIds(Sources(r)) \subseteq valid
                     /\ SourceNames(Sources(r)) = { Blocks(r)[i].src : i \in valid }

C7_Witness ==
    \E r \in Requests :
        /\ IsAnswered(r)
        /\ ~startsWith(answer[r], REFUSAL_PHRASE)
        /\ CitedIdx(answer[r]) = {0, 4}
        /\ Len(Blocks(r)) = 3
        /\ Cardinality(SourceNames(Sources(r))) = 3

\* C8: a question the guard flags as vague ends in Clarify, and neither the
\* index nor the model is called for it, before or after the response.
C8_VagueNoCalls ==
    \A r \in Requests :
        (pc[r] # "idle" /\ question[r] # <<>> /\ isVagueQuestion(question[r])) =>
            /\ pc[r] = "done"
            /\ sent[r] = <<[status |-> 200, body |-> [answer |-> CLARIFY_ANSWER, sources |-> <<>>]]>>
            /\ indexCalls[r] = <<>>
            /\ llmCalls[r] = <<>>

C8_Witness ==
    \E r \in Requests :
        /\ pc[r] = "done"
        /\ Len(question[r]) >= 8
        /\ isVagueQuestion(question[r])
        /\ guardCalls[r] = 1

\* C9: when the index query or the completion call throws, the request ends
\* with status 500 and exactly {error: "Server error"}; the call is not made
\* again and no later stage runs.
C9_ThrowIsServerError ==
    \A r \in Requests :
        /\ thrown[r] \in {"index", "llm"} =>
              /\ pc[r] = "done"
              /\ sent[r] = <<[status |-> 500, body |-> [error |-> "Server error"]]>>
              /\ DOMAIN Response(r).body = {"error"}
              /\ Len(indexCalls[r]) = 1
        /\ thrown[r] = "index" => llmCalls[r] = <<>> /\ results[r] = <<>>
        /\ thrown[r] = "llm" => Len(llmCalls[r]) = 1 /\ answer[r] = <<>>

C9_Witness ==
    \E r \in Requests :
        /\ thrown[r] = "llm"
        /\ Len(results[r]) = 2
        /\ sent[r] # <<>>

\* C10: a missing, empty or white-space-only question is answered at once
\* with 400 "Missing question"; guard, index and model are not invoked.
C10_MissingQuestion ==
    \A r \in Requests :
        (pc[r] # "idle" /\ (~reqBody[r].hasQuestion \/ Blank(reqBody[r].question))) =>
            /\ pc[r] = "done"
            /\ sent[r] = <<[status |-> 400, body |-> [error |-> "Missing question"]]>>
            /\ guardCalls[r] = 0
            /\ indexCalls[r] = <<>>
            /\ llmCalls[r] = <<>>

C10_Witness ==
    \E r \in Requests :
        /\ pc[r] = "done"
        /\ reqBody[r].hasQuestion
        /\ Len(reqBody[r].question) = 3
        /\ Blank(reqBody[r].question)

\* misspellings of the refusal phrase one edit away from it
NEAR_MISSES ==
    { REFUSAL_TYPO,
      <<"I"," ","d","o","n","t"," ","k","n","o","w">>,
      <<"I"," ","d","o","n","'","t"," ","k","o","n","w">> }

\* the completion of the request is text that begins with the prefix p
CompletionStarts(r, p) ==
    /\ pc[r] = "done"
    /\ completion[r].type = "string"
    /\ startsWith(trim(completion[r].value), p)

\* C11 as stated: a completion beginning with any near miss of the refusal
\* phrase is answered with the canonical phrase and no sources.
C11_AnyNearMissNormalized ==
    \A r \in Requests :
        \A p \in NEAR_MISSES :
            CompletionStarts(r, p) =>
                /\ startsWith(Response(r).body.answer, REFUSAL_PHRASE)
                /\ Sources(r) = <<>>

\* C11 (amended): a completion beginning with "I don't now" is answered with
\* "I don't know" in its place, the rest of the text kept, and no sources.
C11_TypoNormalized ==
    \A r \in Requests :
        CompletionStarts(r, REFUSAL_TYPO) =>
            LET text == trim(completion[r].value)
            IN  /\ IsOk(r)
                /\ Response(r).body.answer
                       = REFUSAL_PHRASE \o SubSeq(text, Len(REFUSAL_TYPO) + 1, Len(text))
                /\ Sources(r) = <<>>

C11_Witness ==
    \E r \in Requests :
        /\ CompletionStarts(r, REFUSAL_TYPO)
        /\ 1 \in CitedIdx(completion[r].value)
        /\ Len(results[r]) >= 1
        /\ IsOk(r)

-----------------------------------------------------------------------------
(* Properties of the helpers *)

\* the words of s: its maximal runs of \w characters, lower-cased
WordTokens(s) == MaxRuns(toLowerCase(s), WORD_CHARS)

\* the rules of the trigger table whose pattern matches s
FiredOn(s) == { t \in 1..Len(TRIGGERS) : TriggerFires(s, t) }

Expanded == fn.stage = "expanded"

Guarded == fn.stage = "guarded"

\* C12 as stated: the rules matching the expanded text are the rules matching
\* the original text.
C12_SameTriggersAfterExpansion == Expanded => FiredOn(fn.expanded) = FiredOn(fn.q)

\* C12 (amended): every rule matching q matches the expanded text too; the
\* vehicle and hours rules match the expanded text only if they match q; the
\* saturday, sunday and weekend rules may match it newly.
C12_TriggersGrowOnlyInWeekendFamily ==
    Expanded =>
        /\ FiredOn(fn.q) \subseteq FiredOn(fn.expanded)
        /\ FiredOn(fn.expanded) \ FiredOn(fn.q) \subseteq {1, 2, 3}

C12_Witness ==
    /\ Expanded
    /\ FiredOn(fn.q) = {1, 4}
    /\ FiredOn(fn.expanded) = {1, 3, 4}

\* the terms rule t contributes for q: its terms if one of its words is a
\* word of q, nothing otherwise
Contribution(q, t) ==
    IF WordTokens(q) \cap TRIGGERS[t].words # {} THEN TRIGGERS[t].terms ELSE <<>>

\* C13: the expansion is q, unchanged, followed by the terms of exactly the
\* rules that match q, in table order; q itself when none matches.
C13_ExpansionIsAppend ==
    Expanded =>
        /\ fn.expanded = fn.q \o Contribution(fn.q, 1) \o Contribution(fn.q, 2)
                              \o Contribution(fn.q, 3) \o Contribution(fn.q, 4)
                              \o Contribution(fn.q, 5)
        /\ startsWith(fn.expanded, fn.q)
        /\ (\A t \in 1..5 : WordTokens(fn.q) \cap TRIGGERS[t].words = {}) => fn.expanded = fn.q

C13_Witness ==
    /\ Expanded
    /\ fn.expanded = fn.q \o <<" ","s","u","n","d","a","y"," ","w","e","e","k","e","n","d">>
                          \o <<" ","h","o","u","r","s"," ","o","p","e","n"," ","o","p","e","n","i","n","g"," ","t","i","m","e","s">>
    /\ Len(fn.q) >= 8

DEICTIC_WORDS == { <<"t","h","i","s">>, <<"t","h","a","t">>, <<"i","t">>, <<"h","e","r","e">>, <<"t","h","e","r","e">> }

HasDeicticWord(q) == WordTokens(trim(q)) \cap DEICTIC_WORDS # {}

\* distinguishing content: a meaningful word in the sense of tokenizeMeaningful
HasOtherContent(q) == tokenizeMeaningful(q) # {}

\* C15 as stated: vague exactly when shorter than 8, or a deictic word with
\* no other distinguishing content.
C15_DeicticOnlyWhenBare ==
    Guarded =>
        (fn.vague <=> (Len(trim(fn.q)) < 8 \/ (HasDeicticWord(fn.q) /\ ~HasOtherContent(fn.q))))

\* C15 (amended): vague exactly when the trimmed text is shorter than 8
\* characters or has this, that, it, here or there as a whole word, whatever
\* else it contains.
C15_VagueIffShortOrDeictic ==
    Guarded => (fn.vague <=> (Len(trim(fn.q)) < 8 \/ HasDeicticWord(fn.q)))

C15_Witness ==
    /\ Guarded
    /\ Len(trim(fn.q)) >= 8
    /\ HasDeicticWord(fn.q)
    /\ HasOtherContent(fn.q)
    /\ fn.vague

-----------------------------------------------------------------------------
(* Properties of the handler, continued *)

\* the distance at which the index returned the chunk of a block
ReturnedDistance(r, block) ==
    LET i == CHOOSE x \in 1..Len(returned[r]) :
                 returned[r][x][1].pageContent = block.pageContent
    IN  returned[r][i][2]

GatePassed(r) ==
    /\ pc[r] \in {"awaitLLM", "done"}
    /\ \E i \in 1..Len(returned[r]) : returned[r][i][2] <= COSINE_DISTANCE_MAX

\* C16: when the gate is passed the prompt has N blocks, 1 <= N <= K, labelled
\* 1..N in sequence, in ascending order of distance, in whatever order the
\* index returned them.
C16_BlocksNumberedByDistance ==
    \A r \in Requests :
        GatePassed(r) =>
            /\ Len(llmCalls[r]) = 1
            /\ Len(Blocks(r)) \in 1..3
            /\ \A i \in 1..Len(Blocks(r)) : Blocks(r)[i].label = i
            /\ \A i \in 1..(Len(Blocks(r)) - 1) :
                  ReturnedDistance(r, Blocks(r)[i]) <= ReturnedDistance(r, Blocks(r)[i + 1])

C16_Witness ==
    \E r \in Requests :
        /\ GatePassed(r)
        /\ Len(Blocks(r)) = 3
        /\ returned[r][1][2] = 55
        /\ returned[r][2][2] = 20
        /\ Blocks(r)[3].pageContent = returned[r][1][1].pageContent

\* everything the handler of request r holds
Local(r) ==
    <<pc[r], reqBody[r], question[r], guardCalls[r], returned[r], thrown[r], pairs[r],
      results[r], completion[r], answer[r], indexCalls[r], llmCalls[r], sent[r]>>

\* what request r was given: its body and what its collaborator calls did
Given(r) == <<reqBody[r], returned[r], thrown[r], completion[r]>>

\* two finished requests given the same got the same response
OutcomeDetermined ==
    \A r1, r2 \in Requests :
        (pc[r1] = "done" /\ pc[r2] = "done" /\ Given(r1) = Given(r2)) => sent[r1] = sent[r2]

\* a step leaves the index alone, leaves finished requests alone, and touches
\* one request at most
StepIsolated ==
    /\ store' = store
    /\ \A r \in Requests : pc[r] = "done" => Local(r)' = Local(r)
    /\ \A r1, r2 \in Requests : r1 # r2 => (Local(r1)' = Local(r1) \/ Local(r2)' = Local(r2))

\* C14: under any interleaving no step of a request writes the index, and a
\* request's outcome depends on its own question and collaborator results
\* only: no step of one request, its failure included, changes another.
C14_RequestsIsolated == [](store = Snapshot /\ OutcomeDetermined) /\ [][StepIsolated]_vars

C14_Witness ==
    /\ pc[1] = "done" /\ thrown[1] = "llm"
    /\ IsAnswered(2)
    /\ reqBody[1] = reqBody[2]
    /\ returned[1] = returned[2]
    /\ Len(returned[2]) = 2

Stage(p) == CASE p = "idle" -> 0 [] p = "awaitIndex" -> 1 [] p = "awaitLLM" -> 2 [] p = "done" -> 3

\* the five outcomes
IsOutcome(r, resp) ==
    \/ resp = [status |-> 400, body |-> [error |-> "Missing question"]]
    \/ resp = [status |-> 500, body |-> [error |-> "Server error"]]
    \/ resp = [status |-> 200, body |-> [answer |-> CLARIFY_ANSWER, sources |-> <<>>]]
    \/ resp = [status |-> 200, body |-> [answer |-> REFUSE_ANSWER, sources |-> <<>>]]
    \/ /\ resp.status = 200
       /\ Len(llmCalls[r]) = 1
       /\ resp.body.answer = answer[r]

OneResponse ==
    \A r \in Requests :
        /\ Len(sent[r]) = (IF pc[r] = "done" THEN 1 ELSE 0)
        /\ pc[r] = "done" => IsOutcome(r, sent[r][1])
        /\ Len(indexCalls[r]) <= 1
        /\ Len(llmCalls[r]) <= 1
        /\ llmCalls[r] # <<>> =>
              /\ Len(indexCalls[r]) = 1
              /\ \E i \in 1..Len(returned[r]) : returned[r][i][2] <= COSINE_DISTANCE_MAX

\* a request only moves forward through the stages, and calls are not undone
Forward ==
    \A r \in Requests :
        /\ pc'[r] # pc[r] => Stage(pc'[r]) > Stage(pc[r])
        /\ Len(indexCalls'[r]) >= Len(indexCalls[r])
        /\ Len(llmCalls'[r]) >= Len(llmCalls[r])

\* C17: a handled request sends exactly one response, one of the five
\* outcomes, queries the index and calls the model at most once each, calls
\* the model only after the index returned a chunk within Dmax, never goes
\* back a stage, and - every call settling - reaches a terminal outcome.
C17_OneResponseNoLoop ==
    /\ []OneResponse
    /\ [][Forward]_vars
    /\ \A r \in Single : (pc[r] # "idle") ~> (pc[r] = "done")

C17_Witness ==
    \E r \in Requests :
        /\ IsAnswered(r)
        /\ Len(indexCalls[r]) = 1
        /\ Len(sent[r]) = 1
        /\ Len(results[r]) = 2
        /\ Len(Sources(r)) = 2

====
